---- MODULE Spec2Model ----
(***************************************************************************)
(* Model of the sarchive event pipeline: the signal relay, the per-root    *)
(* watchers (monitor / check_and_queue), the Processor (process_create),   *)
(* the read protocol (read_file / read_job_info), the sinks and the        *)
(* supervisor scope of main.                                               *)
(*                                                                         *)
(* Time is in milliseconds.  A record's `moment` is an Instant that is     *)
(* only ever read through moment.elapsed(); the model keeps that elapsed   *)
(* time (`age`) with each record and lets it grow as time passes.  A       *)
(* record also carries a tracking id (the order of enqueueing) and the     *)
(* job id parsed from the directory name.                                  *)
(***************************************************************************)
EXTENDS Integers, Sequences, FiniteSets, TLC

VARIABLES
    flag,         \* the shared AtomicBool `notification`
    token,        \* the Parker's token: an unpark not yet consumed by park
    backoff,      \* the relay's Backoff step
    relayPc,      \* "wait" | "send" | "done"
    relaySent,    \* number of values the relay has sent on the stop channel
    sigchan,      \* number of `true` values in the stop channel
    wPc,          \* per watcher: "init" | "watching" | "stopped" | "failed"
    nEvents,      \* number of notifier deliveries so far (all roots)
    nextId,       \* tracking id of the next record
    work,         \* the work channel: a sequence of records
    cleanup,      \* the --cleanup flag
    archiver,     \* the sink in use: "file" | "kafka"
    procPc,       \* the Processor: "select" | "drain" | "stopped" | "failed"
    procStopSeen, \* the Processor has received a stop value
    subAtStop,    \* submissions made when the stop value was received
    depthAtStop,  \* r.len() when the stop value was received
    submitted,    \* sequence of [id, elapsed, path] handed to the sink with success
    readOk,       \* ids for which read_job_info returned Ok
    readErr,      \* ids for which read_job_info returned Err
    procErr,      \* the error process_create returned, or "none"
    exitCode,     \* Running | 0 | 1
    lostAt,       \* nextId when a notifier delivery error first ended a watcher, else 0
    fn            \* a call of one of the program's functions on its own (unit level)

vars == <<flag, token, backoff, relayPc, relaySent, sigchan, wPc, nEvents,
          nextId, work, cleanup, archiver, procPc, procStopSeen, subAtStop,
          depthAtStop, submitted, readOk, readErr, procErr, exitCode, lostAt, fn>>

\* the state of the running pipeline
pipe == <<flag, token, backoff, relayPc, relaySent, sigchan, wPc, nEvents,
          nextId, work, cleanup, archiver, procPc, procStopSeen, subAtStop,
          depthAtStop, submitted, readOk, readErr, procErr, exitCode, lostAt>>

-----------------------------------------------------------------------------
(* Bounds of the model *)

NumWatchers == 2

MaxEvents == 2

MaxAge == 1000

TickMs == 1000

BackoffLimit == 1

Never == 1000

MaxIters == 3

MaxBytes == 2

MaxArray == 2

MaxVal == 2

MaxGap == 2

(* Program constants *)

DebounceMs == 2000

PollMs == 10

DefaultIters == 100

StopValues == 20

StopCapacity == 20

HeaderLen == 4

\* the watch locations of an adapter: hash.0 .. hash.9, at most
MaxWatchLocations == 10

DebounceSecs == 2

Watchers == 1..NumWatchers

\* the process has not exited
Running == -1

\* Option: nothing, or one value
None == {}

Some(x) == {x}

unwrap(o) == CHOOSE x \in o : TRUE

Min(a, b) == IF a <= b THEN a ELSE b

-----------------------------------------------------------------------------
(* Paths and the hash-spooled adapter *)

JobPrefix == <<"j", "o", "b", ".">>

Names == { <<"j", "o", "b", ".", "1">>, <<"f", "u", "b", "a", "r">> }

EventKinds == {"CreateFolder", "CreateFile", "Modify"}

starts_with(s, p) == Len(s) >= Len(p) /\ SubSeq(s, 1, Len(p)) = p

LastDot(s) == LET dots == {i \in 1..Len(s) : s[i] = "."}
              IN IF dots = {} THEN 0 ELSE CHOOSE i \in dots : \A j \in dots : j <= i

\* Path::extension: the part after the last dot, nothing when there is no dot
\* or the only dot leads the name
extension(s) == IF LastDot(s) <= 1 THEN None ELSE Some(SubSeq(s, LastDot(s) + 1, Len(s)))

\* a check that takes every directory for a job directory
is_job_path_AnyDir(name, isDir) ==
    IF isDir THEN Some([jobid |-> name, dirname |-> name]) ELSE None

is_job_path(name, isDir) ==
    IF isDir /\ starts_with(name, JobPrefix)
    THEN Some([jobid |-> unwrap(extension(name)), dirname |-> name])
    ELSE None

\* a filter that lets every creation through
verify_event_kind_AnyCreate(kind) == kind \in {"CreateFolder", "CreateFile"}

verify_event_kind(kind) == kind = "CreateFolder"

create_job_info(name, isDir) ==
    IF is_job_path(name, isDir) # None
    THEN Some([id |-> nextId, age |-> 0, jobid |-> unwrap(is_job_path(name, isDir)).jobid])
    ELSE None

\* "Queued", "Ignored" or "Err"
check_and_queue(kind, name, isDir) ==
    IF verify_event_kind(kind)
    THEN IF create_job_info(name, isDir) # None THEN "Queued" ELSE "Err"
    ELSE "Ignored"

-----------------------------------------------------------------------------
(* The alternate (Torque) adapter *)

ScriptExt == <<"S", "C">>

torque_verify_event_kind(kind) == kind = "CreateFile"

\* Path::file_stem: the name up to the last dot
file_stem(s) == IF LastDot(s) <= 1 THEN s ELSE SubSeq(s, 1, LastDot(s) - 1)

\* path.extension().unwrap() on a name without extension
torque_is_job_path_panics(name, isFile) == isFile /\ extension(name) = None

torque_is_job_path(name, isFile) ==
    IF isFile /\ extension(name) = Some(ScriptExt)
    THEN Some([jobid |-> file_stem(name), filename |-> name])
    ELSE None

\* check_and_queue with the alternate adapter: "Queued", "Ignored", "Err" or "Panic"
torque_check_and_queue(kind, name, isFile) ==
    IF torque_verify_event_kind(kind)
    THEN IF torque_is_job_path_panics(name, isFile) THEN "Panic"
         ELSE IF torque_is_job_path(name, isFile) # None THEN "Queued" ELSE "Err"
    ELSE "Ignored"

-----------------------------------------------------------------------------
(* The read protocol *)

\* does <path>/<filename> exist after t waits: it appeared by then and the
\* directory holding it is still there
FileExists(fileAt, dirGoneAt, t) == fileAt <= t /\ t < dirGoneAt

\* a read_file that never looks at the parent path
dir_gone_Never(dirGoneAt, t) == FALSE

\* !Path::exists(path): the parent path is gone after t waits
dir_gone(dirGoneAt, t) == dirGoneAt <= t

RECURSIVE read_file_loop(_, _, _, _)
\* the while loop of read_file after t waits with `iters` iterations left
read_file_loop(fileAt, dirGoneAt, t, iters) ==
    IF ~FileExists(fileAt, dirGoneAt, t) /\ iters > 0
    THEN IF dir_gone(dirGoneAt, t + 1)
         THEN [res |-> "DirGone", t |-> t + 1]
         ELSE read_file_loop(fileAt, dirGoneAt, t + 1, iters - 1)
    ELSE IF iters = 0 THEN [res |-> "Timeout", t |-> t]
         ELSE IF FileExists(fileAt, dirGoneAt, t) THEN [res |-> "Ok", t |-> t]
              ELSE [res |-> "ReadErr", t |-> t]

read_file(fileAt, dirGoneAt, t, iters) ==
    read_file_loop(fileAt, dirGoneAt, t, IF iters = None THEN DefaultIters ELSE unwrap(iters))

\* SlurmJobEntry::read_job_info: the script, then the environment
read_job_info(scriptAt, envAt, dirGoneAt) ==
    LET s == read_file(scriptAt, dirGoneAt, 0, None)
    IN  IF s.res # "Ok" THEN s ELSE read_file(envAt, dirGoneAt, s.t, None)

AppearAts == {0, 1, Never}

DirGoneAts == {1, Never}

\* what read_job_info can return for the spool behaviours considered
ReadOutcomes ==
    { read_job_info(scriptAt, envAt, dirGoneAt) :
        scriptAt \in AppearAts, envAt \in AppearAts, dirGoneAt \in DirGoneAts }

-----------------------------------------------------------------------------
(* The sinks *)

\* a sink that reports the producer's failure
KafkaArchive_SendErrSurfaced(serialOk, sendOk) ==
    IF serialOk THEN (IF sendOk THEN "Ok" ELSE "SendError") ELSE "InvalidData"

KafkaArchive(serialOk, sendOk) ==
    IF serialOk THEN (IF sendOk THEN "Ok" ELSE "Ok") ELSE "InvalidData"

\* ElasticArchive::new: the existence check of the index, and its creation
\* when it is not there
ElasticNew(checkOk, exists, createOk) ==
    IF checkOk
    THEN IF ~exists /\ ~createOk THEN "Panic" ELSE "Built"
    ELSE "Exit1"

\* ElasticArchive::archive: the script and the environment are read again from
\* the spool and the document is sent; each of them is unwrapped
ElasticArchive(readOk_, indexOk) ==
    IF ~readOk_ THEN "Panic" ELSE IF ~indexOk THEN "Panic" ELSE "Ok"

FileArchive(ioOk) == IF ioOk THEN "Ok" ELSE "IoError"

archive_creation(a, b) ==
    IF archiver = "kafka" THEN KafkaArchive(a, b) ELSE FileArchive(a)

\* what the sink in use can return
SinkOutcomes == { archive_creation(a, b) : a \in BOOLEAN, b \in BOOLEAN }

-----------------------------------------------------------------------------
PipeInit ==
    /\ flag = FALSE
    /\ token = FALSE
    /\ backoff = 0
    /\ relayPc = "wait"
    /\ relaySent = 0
    /\ sigchan = 0
    /\ wPc = [w \in Watchers |-> "init"]
    /\ nEvents = 0
    /\ nextId = 1
    /\ work = <<>>
    /\ cleanup \in BOOLEAN
    /\ archiver \in {"file", "kafka"}
    /\ procPc = "select"
    /\ procStopSeen = FALSE
    /\ subAtStop = 0
    /\ depthAtStop = 0
    /\ submitted = <<>>
    /\ readOk = {}
    /\ readErr = {}
    /\ procErr = "none"
    /\ exitCode = Running
    /\ lostAt = 0

Idle == [op |-> "idle"]

Init == PipeInit /\ fn = Idle

-----------------------------------------------------------------------------
(* The environment: time passes, a TERM or INT signal is delivered *)

\* every record of q is d ms older; an elapsed time is only ever compared with
\* the debounce, so it is kept up to DebounceMs and no further
Elapse(q, d) == [i \in 1..Len(q) |-> [q[i] EXCEPT !.age = Min(@ + d, DebounceMs)]]

Tick ==
    /\ UNCHANGED <<lostAt, fn>>
    /\ exitCode = Running
    /\ work # <<>>
    /\ Head(work).age < MaxAge
    /\ work' = Elapse(work, TickMs)
    /\ UNCHANGED <<flag, token, backoff, relayPc, relaySent, sigchan, wPc, nEvents,
                   nextId, cleanup, archiver, procPc, procStopSeen,
                   subAtStop, depthAtStop, submitted, readOk, readErr, procErr, exitCode>>

\* the handler registered for TERM and INT: store the flag, unpark the relay
\* (a delivery that finds both already set changes nothing).  The flag and the
\* token are read in the relay's wait loop and nowhere else: a delivery after
\* the relay has left that loop can be observed by nothing and is left out.
Signal ==
    /\ UNCHANGED <<lostAt, fn>>
    /\ exitCode = Running
    /\ relayPc = "wait"
    /\ ~(flag /\ token)
    /\ flag' = TRUE
    /\ token' = TRUE
    /\ UNCHANGED <<backoff, relayPc, relaySent, sigchan, wPc, nEvents,
                   nextId, work, cleanup, archiver, procPc, procStopSeen,
                   subAtStop, depthAtStop, submitted, readOk, readErr, procErr, exitCode>>

-----------------------------------------------------------------------------
(* The signal relay: signal_handler_atomic *)

\* the condition of the relay's while loop: stay in the loop on TRUE
relay_loop_cond(sig) == sig

\* one evaluation of the while loop: leave it, snooze, or park
RelayWait ==
    /\ UNCHANGED <<lostAt, fn>>
    /\ relayPc = "wait"
    /\ IF relay_loop_cond(flag)
       THEN IF backoff >= BackoffLimit
            THEN /\ token
                 /\ token' = FALSE
                 /\ UNCHANGED <<backoff, relayPc>>
            ELSE /\ backoff' = backoff + 1
                 /\ UNCHANGED <<token, relayPc>>
       ELSE /\ relayPc' = "send"
            /\ UNCHANGED <<token, backoff>>
    /\ UNCHANGED <<flag, relaySent, sigchan, wPc, nEvents,
                   nextId, work, cleanup, archiver, procPc, procStopSeen,
                   subAtStop, depthAtStop, submitted, readOk, readErr, procErr, exitCode>>

\* the for loop of sender.send(true): as many of the remaining sends as the
\* channel has room for go through; the next one blocks while the channel is full
RelaySend ==
    /\ UNCHANGED <<lostAt, fn>>
    /\ relayPc = "send"
    /\ sigchan < StopCapacity
    /\ LET k == Min(StopValues - relaySent, StopCapacity - sigchan)
       IN  /\ sigchan' = sigchan + k
           /\ relaySent' = relaySent + k
           /\ relayPc' = IF relaySent + k = StopValues THEN "done" ELSE "send"
    /\ UNCHANGED <<flag, token, backoff, wPc, nEvents,
                   nextId, work, cleanup, archiver, procPc, procStopSeen,
                   subAtStop, depthAtStop, submitted, readOk, readErr, procErr, exitCode>>

RelayNext == RelayWait \/ RelaySend

-----------------------------------------------------------------------------
(* The watchers: monitor *)

\* recommended_watcher(..)? and watcher.watch(..)?
WatcherStart(w) ==
    /\ UNCHANGED <<lostAt, fn>>
    /\ wPc[w] = "init"
    /\ \E ok \in BOOLEAN : wPc' = [wPc EXCEPT ![w] = IF ok THEN "watching" ELSE "failed"]
    /\ UNCHANGED <<flag, token, backoff, relayPc, relaySent, sigchan, nEvents,
                   nextId, work, cleanup, archiver, procPc, procStopSeen,
                   subAtStop, depthAtStop, submitted, readOk, readErr, procErr, exitCode>>

\* a watcher that takes a stop value and goes on watching
WatcherStop_KeepsWatching(w) ==
    /\ UNCHANGED <<lostAt, fn>>
    /\ wPc[w] = "watching"
    /\ sigchan > 0
    /\ sigchan' = sigchan - 1
    /\ UNCHANGED <<flag, token, backoff, relayPc, relaySent, wPc, nEvents,
                   nextId, work, cleanup, archiver, procPc, procStopSeen,
                   subAtStop, depthAtStop, submitted, readOk, readErr, procErr, exitCode>>

\* recv(sigchannel) -> Ok(true): break Ok(())
WatcherStop(w) ==
    /\ UNCHANGED <<lostAt, fn>>
    /\ wPc[w] = "watching"
    /\ sigchan > 0
    /\ sigchan' = sigchan - 1
    /\ wPc' = [wPc EXCEPT ![w] = "stopped"]
    /\ UNCHANGED <<flag, token, backoff, relayPc, relaySent, nEvents,
                   nextId, work, cleanup, archiver, procPc, procStopSeen,
                   subAtStop, depthAtStop, submitted, readOk, readErr, procErr, exitCode>>

\* what the notifier hands to the watcher: a delivery error, or an event
DeliveryError == [kind |-> "Error", name |-> <<>>, isDir |-> FALSE]

Events == {DeliveryError} \cup [kind : EventKinds, name : Names, isDir : BOOLEAN]

\* the match on the received event: "Queued", "Ignored" or "Err"
on_event(e) ==
    IF e = DeliveryError THEN "Err" ELSE check_and_queue(e.kind, e.name, e.isDir)

\* a watcher that takes an error for a normal end of the loop
after_event_ErrIsOk(r) == IF r = "Err" THEN "stopped" ELSE "watching"

\* where the loop of monitor goes after an event: on, or out with the error
after_event(r) == IF r = "Err" THEN "failed" ELSE "watching"

\* a panic of one watcher thread that takes every watcher down with it
watcher_exit_AbortsAll(pcs, w, r) ==
    IF r = "Err" THEN [v \in Watchers |-> "failed"] ELSE pcs

\* the watcher threads after watcher w handled an event with result r: only
\* w's own thread moves
watcher_exit(pcs, w, r) == [pcs EXCEPT ![w] = after_event(r)]

\* the record as it travels: path_ is <root w>/<name>
entry_of(w, info) ==
    [id |-> info.id, age |-> info.age, jobid |-> info.jobid, root |-> w]

\* a channel that hands out the newest value first
send_Front(q, x) == <<x>> \o q

\* s.send(jobinfo) on the unbounded work channel
send(q, x) == Append(q, x)

\* recv(rx) -> event: Ok(Ok(e)) goes to check_and_queue(scheduler, s, e)?,
\* a delivery error breaks with Err(Generic)
WatcherEvent(w) ==
    /\ UNCHANGED fn
    /\ wPc[w] = "watching"
    /\ nEvents < MaxEvents
    /\ nEvents' = nEvents + 1
    /\ \E e \in Events :
         LET r == on_event(e)
         IN  /\ work' = IF r = "Queued"
                        THEN send(work, entry_of(w, unwrap(create_job_info(e.name, e.isDir))))
                        ELSE work
             /\ nextId' = IF r = "Queued" THEN nextId + 1 ELSE nextId
             /\ wPc' = watcher_exit(wPc, w, r)
             /\ lostAt' = IF e = DeliveryError /\ lostAt = 0 THEN nextId ELSE lostAt
    /\ UNCHANGED <<flag, token, backoff, relayPc, relaySent, sigchan,
                   cleanup, archiver, procPc, procStopSeen,
                   subAtStop, depthAtStop, submitted, readOk, readErr, procErr, exitCode>>

WatcherNext(w) == WatcherStart(w) \/ WatcherStop(w) \/ WatcherEvent(w)

-----------------------------------------------------------------------------
(* The Processor: process_create *)

\* the sending ends of the work channel are owned by main, outside the scope:
\* the channel is never disconnected while the Processor runs
WorkDisconnected == FALSE

checked_sub(a, b) == IF a >= b THEN Some(a - b) ELSE None

\* the debounce: how long the work branch sleeps for an entry of this age
debounce(age) ==
    LET dur == checked_sub(DebounceMs, age) IN IF dur # None THEN unwrap(dur) ELSE 0

\* a Processor that receives the head of the channel and leaves it there
ReadSubmit_NoDequeue(slept, okPc, path) ==
    \E r \in ReadOutcomes, sink \in SinkOutcomes :
      LET entry == Head(work)
          spent == slept + PollMs * r.t
      IN  /\ work' = Elapse(work, spent)
          /\ IF r.res # "Ok"
             THEN /\ readErr' = readErr \cup {entry.id}
                  /\ procErr' = r.res
                  /\ procPc' = "failed"
                  /\ UNCHANGED <<readOk, submitted>>
             ELSE /\ readOk' = readOk \cup {entry.id}
                  /\ UNCHANGED readErr
                  /\ IF sink # "Ok"
                     THEN /\ procErr' = sink
                          /\ procPc' = "failed"
                          /\ UNCHANGED submitted
                     ELSE /\ submitted' = Append(submitted,
                                [id |-> entry.id, root |-> entry.root,
                                 elapsed |-> Min(entry.age + spent, DebounceMs), path |-> path])
                          /\ procPc' = okPc
                          /\ UNCHANGED procErr

\* a Processor that drops the result of read_job_info and submits regardless
ReadSubmit_IgnoreReadErr(slept, okPc, path) ==
    \E r \in ReadOutcomes, sink \in SinkOutcomes :
      LET entry == Head(work)
          spent == slept + PollMs * r.t
      IN  /\ work' = Elapse(Tail(work), spent)
          /\ IF r.res # "Ok"
             THEN /\ readErr' = readErr \cup {entry.id}
                  /\ UNCHANGED readOk
             ELSE /\ readOk' = readOk \cup {entry.id}
                  /\ UNCHANGED readErr
          /\ IF sink # "Ok"
             THEN /\ procErr' = sink
                  /\ procPc' = "failed"
                  /\ UNCHANGED submitted
             ELSE /\ submitted' = Append(submitted,
                        [id |-> entry.id, root |-> entry.root,
                                 elapsed |-> Min(entry.age + spent, DebounceMs), path |-> path])
                  /\ procPc' = okPc
                  /\ UNCHANGED procErr

\* entry.read_job_info()?; archiver.archive_creation(&entry)?  for the entry at
\* the head of the channel, after sleeping `slept` ms; then on to okPc
ReadSubmit(slept, okPc, path) ==
    \E r \in ReadOutcomes, sink \in SinkOutcomes :
      LET entry == Head(work)
          spent == slept + PollMs * r.t
      IN  /\ work' = Elapse(Tail(work), spent)
          /\ IF r.res # "Ok"
             THEN /\ readErr' = readErr \cup {entry.id}
                  /\ procErr' = r.res
                  /\ procPc' = "failed"
                  /\ UNCHANGED <<readOk, submitted>>
             ELSE /\ readOk' = readOk \cup {entry.id}
                  /\ UNCHANGED readErr
                  /\ IF sink # "Ok"
                     THEN /\ procErr' = sink
                          /\ procPc' = "failed"
                          /\ UNCHANGED submitted
                     ELSE /\ submitted' = Append(submitted,
                                [id |-> entry.id, root |-> entry.root,
                                 elapsed |-> Min(entry.age + spent, DebounceMs), path |-> path])
                          /\ procPc' = okPc
                          /\ UNCHANGED procErr

\* the cleanup test the wrong way round
after_stop_Inverted(c) == IF c THEN "stopped" ELSE "drain"

\* the branch the stop value takes: leave, or drain first
after_stop(c) == IF ~c THEN "stopped" ELSE "drain"

\* a Processor that reports nothing as skipped
queue_depth_Zero(q) == 0

\* r.len(): the number of records in the work channel right now
queue_depth(q) == Len(q)

\* select!: recv(sigchannel) -> Ok(true)
ProcStop ==
    /\ UNCHANGED <<lostAt, fn>>
    /\ procPc = "select"
    /\ sigchan > 0
    /\ sigchan' = sigchan - 1
    /\ procStopSeen' = TRUE
    /\ subAtStop' = Len(submitted)
    /\ depthAtStop' = queue_depth(work)
    /\ procPc' = after_stop(cleanup)
    /\ UNCHANGED <<flag, token, backoff, relayPc, relaySent, wPc, nEvents,
                   nextId, work, cleanup, archiver,
                   submitted, readOk, readErr, procErr, exitCode>>

\* select!: recv(r) -> entry: debounce, read, submit
ProcWork ==
    /\ UNCHANGED <<lostAt, fn>>
    /\ procPc = "select"
    /\ IF work # <<>>
       THEN ReadSubmit(debounce(Head(work).age), "select", "work")
       ELSE /\ WorkDisconnected
            /\ procPc' = "stopped"
            /\ UNCHANGED <<work, submitted, readOk, readErr, procErr>>
    /\ UNCHANGED <<flag, token, backoff, relayPc, relaySent, sigchan, wPc, nEvents,
                   nextId, cleanup, archiver, procStopSeen,
                   subAtStop, depthAtStop, exitCode>>

\* for mut entry in r.iter(): the next entry, read and submitted; the iterator
\* blocks while the channel is empty and connected
DrainNext ==
    /\ UNCHANGED <<lostAt, fn>>
    /\ procPc = "drain"
    /\ IF work # <<>>
       THEN ReadSubmit(0, "drain", "drain")
       ELSE /\ WorkDisconnected
            /\ procPc' = "stopped"
            /\ UNCHANGED <<work, submitted, readOk, readErr, procErr>>
    /\ UNCHANGED <<flag, token, backoff, relayPc, relaySent, sigchan, wPc, nEvents,
                   nextId, cleanup, archiver, procStopSeen,
                   subAtStop, depthAtStop, exitCode>>

ProcNext == ProcStop \/ ProcWork \/ DrainNext

ProcReturned == procPc \in {"stopped", "failed"}

-----------------------------------------------------------------------------
(* The supervisor: the scope of main joins every thread, then exits *)

WatcherReturned(w) == wPc[w] \in {"stopped", "failed"}

\* a watcher's Err is turned into a panic, which the scope reports; the
\* Processor's result is dropped
SupervisorExit ==
    /\ UNCHANGED <<lostAt, fn>>
    /\ exitCode = Running
    /\ relayPc = "done"
    /\ \A w \in Watchers : WatcherReturned(w)
    /\ ProcReturned
    /\ exitCode' = IF \E w \in Watchers : wPc[w] = "failed" THEN 1 ELSE 0
    /\ UNCHANGED <<flag, token, backoff, relayPc, relaySent, sigchan, wPc, nEvents,
                   nextId, work, cleanup, archiver, procPc, procStopSeen,
                   subAtStop, depthAtStop, submitted, readOk, readErr, procErr>>

-----------------------------------------------------------------------------
(* What read_job_info stores *)

Bytes == {0, 65}

\* the contents a spool file can have
Contents == UNION { [1..n -> Bytes] : n \in 0..MaxBytes }

\* a read_job_info that stores the script as it is in the spool
pop_nul_Never(b) == b

\* if let Some(0) = s.last() { s.pop(); }
pop_nul(b) == IF Len(b) > 0 /\ b[Len(b)] = 0 THEN SubSeq(b, 1, Len(b) - 1) ELSE b

\* a read_job_info that drops a trailing NUL of the environment as well
slurm_read_job_info_EnvPopped(script, env) ==
    IF script = None THEN [res |-> "Err", script_ |-> None, env_ |-> None]
    ELSE IF env = None THEN [res |-> "Err", script_ |-> Some(pop_nul(unwrap(script))), env_ |-> None]
    ELSE [res |-> "Ok", script_ |-> Some(pop_nul(unwrap(script))),
          env_ |-> Some(pop_nul(unwrap(env)))]

\* SlurmJobEntry::read_job_info on a spool whose files hold these bytes, an
\* absent file being one read_file gave up on
slurm_read_job_info(script, env) ==
    IF script = None THEN [res |-> "Err", script_ |-> None, env_ |-> None]
    ELSE IF env = None THEN [res |-> "Err", script_ |-> Some(pop_nul(unwrap(script))), env_ |-> None]
    ELSE [res |-> "Ok", script_ |-> Some(pop_nul(unwrap(script))), env_ |-> Some(unwrap(env))]

\* the file the record of these calls was created for (path_)
TorqueScript == <<"1", ".", "S", "C">>

JobBlobExt == <<"J", "B">>

ArrayTaskExt == <<"T", "A">>

\* Path::with_extension
with_extension(name, ext) == file_stem(name) \o <<".">> \o ext

\* filename.split('.') ... fparts[0]
first_part(name) ==
    LET dots == {i \in 1..Len(name) : name[i] = "."}
    IN  IF dots = {} THEN name
        ELSE SubSeq(name, 1, (CHOOSE i \in dots : \A j \in dots : i <= j) - 1)

ends_with(s, x) == Len(s) >= Len(x) /\ SubSeq(s, Len(s) - Len(x) + 1, Len(s)) = x

Digits == <<"1", "2", "3", "4">>

\* job-blob files a spool directory can hold: those of the array job 1, and one
\* of another job
DirFiles ==
    { <<"1", "-", Digits[i], ".", "J", "B">> : i \in 1..MaxArray }
        \cup { <<"2", "-", "1", ".", "J", "B">> }

\* a glob for the file <first>.JB alone
glob_jb_ExactStem(listing, first) ==
    { f \in listing : f = first \o <<".">> \o JobBlobExt }

\* glob("<dir>/<first>-*.JB") over the files of the directory
glob_jb(listing, first) ==
    { f \in listing : starts_with(f, first \o <<"-">>) /\ ends_with(f, <<".">> \o JobBlobExt)
                      /\ Len(f) >= Len(first) + 4 }

\* the entries of env_ for the <first>-*.JB files the glob matched
array_entries(jbs) == { [ext |-> "JB", name |-> j.name, bytes |-> j.bytes] : j \in jbs }

\* TorqueJobEntry::read_job_info: the script, then the .TA file and the array
\* job's <stem>-*.JB files, or else the single <stem>.JB file
torque_read_job_info(script, ta, jbs, jb) ==
    IF script = None THEN [res |-> "Err", script_ |-> None, env_ |-> {}]
    ELSE IF ta # None
         THEN [res |-> "Ok", script_ |-> script,
               env_ |-> {[ext |-> "TA", name |-> with_extension(TorqueScript, ArrayTaskExt),
                          bytes |-> unwrap(ta)]} \cup array_entries(jbs)]
         ELSE IF jb = None
              THEN [res |-> "Err", script_ |-> script, env_ |-> {}]
              ELSE [res |-> "Ok", script_ |-> script,
                    env_ |-> {[ext |-> "JB", name |-> with_extension(TorqueScript, JobBlobExt),
                               bytes |-> unwrap(jb)]}]

-----------------------------------------------------------------------------
(* The environment of a hash-spooled job: extra_info *)

\* the NUL byte
NUL == "NUL"

Max(S) == CHOOSE x \in S : \A y \in S : y <= x

MinOf(S) == CHOOSE x \in S : \A y \in S : x <= y

RECURSIVE split(_, _)
\* str::split(sep): the pieces between the separators, empty ones included
split(s, sep) ==
    LET at == {i \in 1..Len(s) : s[i] = sep}
    IN  IF at = {} THEN <<s>>
        ELSE <<SubSeq(s, 1, MinOf(at) - 1)>> \o split(SubSeq(s, MinOf(at) + 1, Len(s)), sep)

\* str::trim: without leading and trailing whitespace
trim(s) ==
    LET ink == {i \in 1..Len(s) : s[i] # " "}
    IN  IF ink = {} THEN <<>> ELSE SubSeq(s, MinOf(ink), Max(ink))

\* Regex::is_match for a literal pattern: the pattern occurs somewhere in the text
is_match(pat, text) ==
    \E i \in 1..(Len(text) - Len(pat) + 1) : SubSeq(text, i, i + Len(pat) - 1) = pat

filter_env(r, env) == IF r # None THEN is_match(unwrap(r), env) ELSE FALSE

\* the closure of filter_map in extra_info: what one entry contributes
parse_entry(raw, r) ==
    LET entry == trim(raw)
        parts == split(entry, "=")
    IN  IF entry # <<>>
        THEN IF Len(parts) = 2
             THEN IF trim(parts[1]) # <<>> /\ ~filter_env(r, trim(parts[1]))
                  THEN Some([key |-> trim(parts[1]), value |-> parts[2]])
                  ELSE None
             ELSE Some([key |-> entry, value |-> <<>>])
        ELSE None

\* collect::<HashMap<_, _>>(): the last pair of a key is the one that stays
collect(pairs) ==
    LET at == {i \in 1..Len(pairs) : pairs[i] # None}
    IN  [k \in {unwrap(pairs[i]).key : i \in at} |->
            unwrap(pairs[Max({i \in at : unwrap(pairs[i]).key = k})]).value]

\* s.split_at(4) on fewer than four bytes: mid > len
extra_info_panics(env) == Len(env) < HeaderLen

\* SlurmJobEntry::extra_info on the stored environment bytes (the header is there)
extra_info(env, r) ==
    LET entries == split(SubSeq(env, HeaderLen + 1, Len(env)), NUL)
    IN  collect([i \in 1..Len(entries) |-> parse_entry(entries[i], r)])

Header == [i \in 1..HeaderLen |-> "h"]

EnvKeys == <<(<<"K">>), (<<"L">>)>>

EnvValues == UNION { [1..n -> {"v", "=", " "}] : n \in 0..MaxVal }

\* the mappings from some of the keys to values
Mappings == UNION { [D -> EnvValues] : D \in SUBSET {EnvKeys[i] : i \in 1..Len(EnvKeys)} }

RECURSIVE serialize_from(_, _)
serialize_from(m, i) ==
    IF i > Len(EnvKeys) THEN <<>>
    ELSE (IF EnvKeys[i] \in DOMAIN m
          THEN EnvKeys[i] \o <<"=">> \o m[EnvKeys[i]] \o <<NUL>>
          ELSE <<>>) \o serialize_from(m, i + 1)

\* the environment file of a job whose environment is m
serialize(m) == Header \o serialize_from(m, 1)

\* entries as they can stand in an environment file
RawEntries == { <<"K">>, <<"K", "=", "v">>, <<"K", "=", "v", "=", "v">>, <<"L", "=", "v">> }

-----------------------------------------------------------------------------
(* The filesystem sink *)

\* SlurmJobEntry::files: job.<id>_script and job.<id>_environment, for the
\* parts that are there
slurm_files(jobid, rec) ==
    (IF rec.script_ # None
     THEN <<[name |-> JobPrefix \o jobid \o <<"_", "script">>, bytes |-> unwrap(rec.script_)]>>
     ELSE <<>>)
    \o
    (IF rec.env_ # None
     THEN <<[name |-> JobPrefix \o jobid \o <<"_", "environment">>, bytes |-> unwrap(rec.env_)]>>
     ELSE <<>>)

Periods == {"None", "Yearly", "Monthly", "Daily"}

\* the local date: year, month, day
Today == [y |-> 2026, m |-> 11, d |-> 4]

\* the local dates at which a record is handed to the sink
Dates == { Today, [y |-> 2027, m |-> 1, d |-> 31] }

DecimalDigits == <<"0", "1", "2", "3", "4", "5", "6", "7", "8", "9">>

RECURSIVE pad(_, _)
\* %Y, %m and %d of strftime: n in decimal, zero-padded to w digits
pad(n, w) == IF w = 0 THEN <<>> ELSE pad(n \div 10, w - 1) \o <<DecimalDigits[(n % 10) + 1]>>

\* determine_target_path: the name of the subdirectory of the archive for the
\* period, <<>> being the archive path itself
determine_target_path(p, now) ==
    IF p = "Yearly" THEN pad(now.y, 4)
    ELSE IF p = "Monthly" THEN pad(now.y, 4) \o pad(now.m, 2)
    ELSE IF p = "Daily" THEN pad(now.y, 4) \o pad(now.m, 2) \o pad(now.d, 2)
    ELSE <<>>

\* what can stand at the subdirectory's path when determine_target_path looks
NodeKinds == {"absent", "dir", "file"}

\* the Some(d) arm of determine_target_path: a path that does not exist is
\* created with create_dir_all(..).unwrap(), any path that exists is returned
ensure_subdir(node, createOk) ==
    IF node = "absent"
    THEN IF createOk THEN [res |-> "Returned", node |-> "dir"]
         ELSE [res |-> "Panic", node |-> "absent"]
    ELSE [res |-> "Returned", node |-> node]

\* a file opened for appending keeps what it held
write_file_Append(old, bytes) == old \o bytes

\* File::create(..)? truncates; f.write_all(fcontents)?
write_file(old, bytes) == bytes

\* the files of the archive, by directory and name, after one more is written
put(fs, dir, name, bytes) ==
    LET p == [dir |-> dir, name |-> name]
    IN  [q \in DOMAIN fs \cup {p} |->
            IF q = p THEN write_file(IF p \in DOMAIN fs THEN fs[p] ELSE <<>>, bytes)
            ELSE fs[q]]

\* how the body of the loop can go for one file
FailKinds == {"create", "write"}

\* a loop body that logs a failure and reports success
write_one_ErrSwallowed(fs, dir, file, fail) ==
    IF fail \in FailKinds THEN [res |-> "Ok", fs |-> fs]
    ELSE [res |-> "Ok", fs |-> put(fs, dir, file.name, file.bytes)]

\* the body of the loop for one file: File::create(..)? and f.write_all(..)?;
\* when write_all fails the file is there, truncated, and what it holds of the
\* bytes is left open (here: nothing)
write_one(fs, dir, file, fail) ==
    IF fail = "create" THEN [res |-> "IoError", fs |-> fs]
    ELSE IF fail = "write" THEN [res |-> "IoError", fs |-> put(fs, dir, file.name, <<>>)]
    ELSE [res |-> "Ok", fs |-> put(fs, dir, file.name, file.bytes)]

RECURSIVE write_files(_, _, _, _, _, _)
\* the for loop of FileArchive::archive from the i-th file on; the failAt-th
\* file fails in the way `how` (failAt = 0: none does), and `?` returns the
\* error at once
write_files(fs, dir, files, i, failAt, how) ==
    IF i > Len(files) THEN [res |-> "Ok", fs |-> fs]
    ELSE LET r == write_one(fs, dir, files[i], IF i = failAt THEN how ELSE "none")
         IN  IF r.res # "Ok" THEN r
             ELSE write_files(r.fs, dir, files, i + 1, failAt, how)

\* FileArchive::archive
file_archive(fs, p, now, files, failAt, how) ==
    write_files(fs, determine_target_path(p, now), files, 1, failAt, how)

\* an archive with nothing in it
EmptyFs == [q \in {} |-> <<>>]

-----------------------------------------------------------------------------
(* Calls of single functions, each from the idle state *)

UnitNames ==
    Names \cup { <<"1", ".", "S", "C">>, <<"1", ".", "J", "B">>, <<"x">>, JobPrefix }

\* check_and_queue(scheduler, s, event)? in the loop of monitor, for either
\* adapter; the node the event's path names is a directory or a file; `monitor`
\* is where the loop is after the `?`
CallCheckAndQueue ==
    /\ fn = Idle
    /\ \E sched \in {"slurm", "torque"}, kind \in EventKinds, name \in UnitNames,
          isDir \in BOOLEAN :
         fn' = [op |-> "check_and_queue", sched |-> sched, kind |-> kind,
                name |-> name, isDir |-> isDir,
                verified |-> IF sched = "slurm" THEN verify_event_kind(kind)
                             ELSE torque_verify_event_kind(kind),
                jobpath |-> IF sched = "slurm" THEN is_job_path(name, isDir) # None
                            ELSE torque_is_job_path(name, ~isDir) # None,
                jobid |-> IF sched = "slurm"
                          THEN (IF create_job_info(name, isDir) # None
                                THEN unwrap(create_job_info(name, isDir)).jobid ELSE <<>>)
                          ELSE (IF torque_is_job_path(name, ~isDir) # None
                                THEN unwrap(torque_is_job_path(name, ~isDir)).jobid ELSE <<>>),
                res |-> IF sched = "slurm" THEN check_and_queue(kind, name, isDir)
                        ELSE torque_check_and_queue(kind, name, ~isDir),
                monitor |-> IF sched = "slurm"
                            THEN after_event(check_and_queue(kind, name, isDir))
                            ELSE IF torque_check_and_queue(kind, name, ~isDir) = "Panic"
                                 THEN "panicked"
                                 ELSE after_event(torque_check_and_queue(kind, name, ~isDir))]
    /\ UNCHANGED pipe

RfFileAts == 0..(MaxIters + 1) \cup {DefaultIters, Never}

RfDirGoneAts == 1..(MaxIters + 1) \cup {Never}

RfIters == {None} \cup { Some(n) : n \in 0..MaxIters }

\* iters.unwrap_or(100)
unwrap_or(o, d) == IF o = None THEN d ELSE unwrap(o)

\* read_file(path, filename, iters) is entered
RfStart ==
    /\ fn = Idle
    /\ \E fileAt \in RfFileAts, dirGoneAt \in RfDirGoneAts, n \in RfIters :
         fn' = [op |-> "read_file", pc |-> "loop", fileAt |-> fileAt,
                dirGoneAt |-> dirGoneAt, n |-> unwrap_or(n, DefaultIters),
                iters |-> unwrap_or(n, DefaultIters), t |-> 0, seen |-> FALSE,
                res |-> "none"]
    /\ UNCHANGED pipe

\* a wait that leaves the count of iterations as it was
rf_after_wait_NoCountdown(c) == [c EXCEPT !.t = @ + 1]

\* sleep(ten_millis) ... iters -= 1
rf_after_wait(c) == [c EXCEPT !.t = @ + 1, !.iters = @ - 1]

\* one evaluation of the while condition of read_file: a wait and the check
\* of the parent path, or the match on iters that ends the call
RfStep ==
    /\ fn.op = "read_file"
    /\ fn.pc = "loop"
    /\ LET exists == FileExists(fn.fileAt, fn.dirGoneAt, fn.t)
           c == [fn EXCEPT !.seen = @ \/ exists]
       IN  IF ~exists /\ fn.iters > 0
           THEN IF dir_gone(fn.dirGoneAt, fn.t + 1)
                THEN fn' = [c EXCEPT !.t = @ + 1, !.pc = "done", !.res = "DirGone"]
                ELSE fn' = rf_after_wait(c)
           ELSE IF fn.iters = 0
                THEN fn' = [c EXCEPT !.pc = "done", !.res = "Timeout"]
                ELSE fn' = [c EXCEPT !.pc = "done",
                                     !.res = IF exists THEN "Ok" ELSE "ReadErr"]
    /\ UNCHANGED pipe

\* read_job_info on a record of either adapter over a spool with the given files
CallReadJobInfo ==
    /\ fn = Idle
    /\ \/ \E script \in {None} \cup {Some(b) : b \in Contents},
             env \in {None} \cup {Some(b) : b \in Contents} :
            fn' = [op |-> "read_job_info", sched |-> "slurm", script |-> script,
                   env |-> env, ta |-> FALSE, jb |-> FALSE,
                   listing |-> {}, out |-> slurm_read_job_info(script, env)]
       \/ \E script \in {None} \cup {Some(b) : b \in Contents},
             ta \in {None, Some(<<65>>)},
             listing \in SUBSET DirFiles,
             jb \in {None, Some(<<>>), Some(<<65>>)} :
            fn' = [op |-> "read_job_info", sched |-> "torque", script |-> script,
                   env |-> None, ta |-> ta # None,
                   jb |-> jb # None, listing |-> listing,
                   out |-> torque_read_job_info(script, ta,
                              { [name |-> f, bytes |-> <<65>>] :
                                  f \in glob_jb(listing, first_part(TorqueScript)) }, jb)]
    /\ UNCHANGED pipe

\* extra_info on the environment file written from a mapping, or holding one
\* entry of a given shape, or holding no more than a header, whole or cut
\* short; with or without a filter regex
CallExtraInfo ==
    /\ fn = Idle
    /\ \E r \in {None, Some(<<"K">>)} :
         \/ \E m \in Mappings :
              fn' = [op |-> "extra_info", src |-> "map", m |-> m, filter |-> r,
                     env |-> serialize(m), res |-> "Ok",
                     out |-> extra_info(serialize(m), r)]
         \/ \E e \in RawEntries :
              fn' = [op |-> "extra_info", src |-> "raw", m |-> <<>>, filter |-> r,
                     env |-> Header \o e \o <<NUL>>, res |-> "Ok",
                     out |-> extra_info(Header \o e \o <<NUL>>, r)]
         \/ \E n \in 0..HeaderLen :
              LET env == SubSeq(Header, 1, n)
              IN  fn' = [op |-> "extra_info", src |-> "short", m |-> <<>>, filter |-> r,
                         env |-> env,
                         res |-> IF extra_info_panics(env) THEN "Panic" ELSE "Ok",
                         out |-> IF extra_info_panics(env) THEN <<>> ELSE extra_info(env, r)]
    /\ UNCHANGED pipe

\* a hash-spooled job is read from the spool and handed to the filesystem
\* sink; the archive is empty or holds an older file of the same name
CallFileArchive ==
    /\ fn = Idle
    /\ \E script \in Contents, env \in Contents, p \in Periods, stale \in BOOLEAN :
         LET rec == slurm_read_job_info(Some(script), Some(env))
             files == slurm_files(<<"1">>, rec)
             pre == IF stale
                    THEN put(EmptyFs, determine_target_path(p, Today), files[1].name, <<65>>)
                    ELSE EmptyFs
             r == file_archive(pre, p, Today, files, 0, "none")
         IN  fn' = [op |-> "file_archive", script |-> script, env |-> env, period |-> p,
                    stale |-> stale, files |-> files, res |-> r.res, fs |-> r.fs,
                    once |-> r.fs, count |-> 1]
    /\ UNCHANGED pipe

\* the same record is handed to the sink once more, in the same period
FileArchiveAgain ==
    /\ fn.op = "file_archive"
    /\ fn.count = 1
    /\ fn' = [fn EXCEPT !.fs = file_archive(fn.fs, fn.period, Today, fn.files, 0, "none").fs,
                        !.count = 2]
    /\ UNCHANGED pipe

RECURSIVE put_all(_, _, _, _)
\* an archive that holds an older file for each of the names from the i-th on
put_all(fs, dir, files, i) ==
    IF i > Len(files) THEN fs
    ELSE put_all(put(fs, dir, files[i].name, <<65>>), dir, files, i + 1)

\* a hash-spooled job is handed to the filesystem sink and the k-th of its
\* files cannot be created, or cannot be written; the archive is empty or
\* holds older files of the same names
CallFileArchiveFails ==
    /\ fn = Idle
    /\ \E script \in Contents, env \in Contents, p \in {"None", "Daily"},
          stale \in BOOLEAN, k \in 1..2, how \in FailKinds :
         LET rec == slurm_read_job_info(Some(script), Some(env))
             files == slurm_files(<<"1">>, rec)
             dir == determine_target_path(p, Today)
             pre == IF stale THEN put_all(EmptyFs, dir, files, 1) ELSE EmptyFs
             r == file_archive(pre, p, Today, files, k, how)
         IN  fn' = [op |-> "file_archive_fails", dir |-> dir, files |-> files, k |-> k,
                    how |-> how, pre |-> pre, res |-> r.res, fs |-> r.fs]
    /\ UNCHANGED pipe

\* determine_target_path(archive_path, p) at some date, with the path of the
\* subdirectory absent, a directory, or taken by a regular file
CallDetermineTargetPath ==
    /\ fn = Idle
    /\ \E p \in Periods, now \in Dates, node \in NodeKinds, createOk \in BOOLEAN :
         LET r == IF p = "None" THEN [res |-> "Returned", node |-> node]
                  ELSE ensure_subdir(node, createOk)
         IN  fn' = [op |-> "determine_target_path", period |-> p, now |-> now,
                    before |-> node, path |-> determine_target_path(p, now),
                    res |-> r.res, node |-> r.node]
    /\ UNCHANGED pipe

\* Duration::as_secs: whole seconds of a time in ms
as_secs(ms) == ms \div 1000

\* the debounce of the legacy archive(): the sleep in ms, given what the two
\* reads of moment.elapsed() return; Duration - Duration panics on underflow
legacy_debounce(e1, e2) ==
    IF as_secs(e1) < DebounceSecs
    THEN IF checked_sub(DebounceMs, e2) = None
         THEN [res |-> "Panic", slept |-> 0]
         ELSE [res |-> "Slept", slept |-> unwrap(checked_sub(DebounceMs, e2))]
    ELSE [res |-> "NoSleep", slept |-> 0]

\* what the first read of elapsed() can return, in ms
FirstElapsed == {0, DebounceMs - 1, DebounceMs, DebounceMs + 1}

\* the legacy archive() is entered for a record; between its two reads of
\* the monotonic clock some time passes, or none
CallLegacyArchive ==
    /\ fn = Idle
    /\ \E e1 \in FirstElapsed, gap \in 0..MaxGap :
         fn' = [op |-> "legacy_archive", e1 |-> e1, e2 |-> e1 + gap,
                res |-> legacy_debounce(e1, e1 + gap).res,
                slept |-> legacy_debounce(e1, e1 + gap).slept]
    /\ UNCHANGED pipe

\* a record is handed to the message-bus sink
CallKafkaArchive ==
    /\ fn = Idle
    /\ \E serialOk \in BOOLEAN, sendOk \in BOOLEAN :
         fn' = [op |-> "kafka_archive", serialOk |-> serialOk, sendOk |-> sendOk,
                res |-> KafkaArchive(serialOk, sendOk)]
    /\ UNCHANGED pipe

\* the search-index sink is constructed, or a record is handed to it
CallElastic ==
    /\ fn = Idle
    /\ \/ \E checkOk \in BOOLEAN, exists \in BOOLEAN, createOk \in BOOLEAN :
            fn' = [op |-> "elastic_new", checkOk |-> checkOk, exists |-> exists,
                   createOk |-> createOk, res |-> ElasticNew(checkOk, exists, createOk)]
       \/ \E rd \in BOOLEAN, indexOk \in BOOLEAN :
            fn' = [op |-> "elastic_archive", readOk |-> rd, indexOk |-> indexOk,
                   res |-> ElasticArchive(rd, indexOk)]
    /\ UNCHANGED pipe

\* a relay whose loop makes one send more than the channel holds
relay_sends_left_OneMore(sent) == StopValues + 1 - sent

\* for _ in 0..20: the sends still to be made after `sent` of them
relay_sends_left(sent) == StopValues - sent

\* signal_handler_atomic(&sender, sig, &p) is entered with a stop channel of
\* capacity 20 that nothing receives from; the flag is set or not yet
CallRelay ==
    /\ fn = Idle
    /\ \E f \in BOOLEAN :
         fn' = [op |-> "relay", pc |-> "wait", flag |-> f, sent |-> 0, chan |-> 0]
    /\ UNCHANGED pipe

\* the handler of the signal stores the flag, wherever the relay is
RelayFlagSet ==
    /\ fn.op = "relay"
    /\ ~fn.flag
    /\ fn' = [fn EXCEPT !.flag = TRUE]
    /\ UNCHANGED pipe

\* the while loop is left when its condition is false; while it is true the
\* relay snoozes or parks
RelayProceed ==
    /\ fn.op = "relay"
    /\ fn.pc = "wait"
    /\ ~relay_loop_cond(fn.flag)
    /\ fn' = [fn EXCEPT !.pc = "send"]
    /\ UNCHANGED pipe

\* one sender.send(true).unwrap(): it goes through when the channel has room
\* and blocks while it is full; after the last one the relay returns
RelaySendOne ==
    /\ fn.op = "relay"
    /\ fn.pc = "send"
    /\ fn.chan < StopCapacity
    /\ fn' = [fn EXCEPT !.sent = @ + 1, !.chan = @ + 1,
                        !.pc = IF relay_sends_left(fn.sent + 1) = 0 THEN "done" ELSE "send"]
    /\ UNCHANGED pipe

FnNext ==
    \/ CallRelay
    \/ RelayFlagSet
    \/ RelayProceed
    \/ RelaySendOne
    \/ CallKafkaArchive
    \/ CallElastic
    \/ CallCheckAndQueue
    \/ RfStart
    \/ RfStep
    \/ CallReadJobInfo
    \/ CallExtraInfo
    \/ CallDetermineTargetPath
    \/ CallLegacyArchive
    \/ CallFileArchive
    \/ FileArchiveAgain
    \/ CallFileArchiveFails

FnSpec == Init /\ [][FnNext]_vars

-----------------------------------------------------------------------------
Next ==
    \/ Tick
    \/ Signal
    \/ RelayNext
    \/ \E w \in Watchers : WatcherNext(w)
    \/ ProcNext
    \/ SupervisorExit

Spec == Init /\ [][Next]_vars

\* every thread of the scope that can take a step gets to take it; signals and
\* filesystem events are up to the environment
FairSpec ==
    /\ Spec
    /\ WF_vars(RelayNext)
    /\ \A w \in Watchers : WF_vars(WatcherStart(w) \/ WatcherStop(w))
    /\ WF_vars(ProcNext)
    /\ WF_vars(SupervisorExit)

-----------------------------------------------------------------------------
(* Properties *)

\* C1: every record handed to the sink, on the work path or while draining,
\* is at least two seconds old at the submission.
C1_DebounceFloor ==
    \A i \in 1..Len(submitted) : submitted[i].elapsed >= DebounceMs

\* C2: a record whose read_job_info returned an error is never handed to the
\* sink; every submitted record had read_job_info return Ok, on both paths.
C2_NoSubmitAfterReadError ==
    \A i \in 1..Len(submitted) :
        submitted[i].id \in readOk /\ submitted[i].id \notin readErr

\* a read failed after a record had been submitted while draining
C2_Witness ==
    /\ readErr # {}
    /\ \E i \in 1..Len(submitted) : submitted[i].path = "drain"

\* C3: under cleanup=false, once the Processor has received a stop value it
\* has returned and submits nothing more, whatever is or gets into the channel.
C3_NoSubmitAfterStop ==
    (~cleanup /\ procStopSeen) => (procPc = "stopped" /\ Len(submitted) = subAtStop)

\* the stop found a record in the channel and another was enqueued afterwards
C3_Witness ==
    /\ ~cleanup
    /\ procStopSeen
    /\ depthAtStop > 0
    /\ Len(work) > depthAtStop

\* C4: under cleanup=true, after the stop value the Processor drains the
\* channel and returns: it has returned or it can take a step, it is never
\* left waiting on the channel.
C4_DrainReturns ==
    (cleanup /\ procStopSeen) => (ProcReturned \/ ENABLED ProcNext)

\* C5: under cleanup=true, the submissions made never exceed those made before
\* the stop value plus the depth of the channel when it was received.
C5_DrainCount ==
    (cleanup /\ procStopSeen) => Len(submitted) <= subAtStop + depthAtStop

\* C6: after a signal has set the flag, the relay goes on to its broadcast:
\* it has left its waiting loop or it can take a step.
C6_SignalReachesRelay ==
    flag => (relayPc # "wait" \/ ENABLED RelayNext)

\* C7: the relay has sent a stop value only if a signal handler has set the flag.
C7_NoStopBeforeFlag ==
    relaySent > 0 => flag

C9_ReadFailureKeepsRunning ==
    readErr # {} => procPc # "failed"

\* C10: an InvalidData result of the sink does not end the Processor.
C10_InvalidDataKeepsRunning ==
    ~(procPc = "failed" /\ procErr = "InvalidData")

\* C11: once a watcher has returned an error, the process eventually exits with
\* a non-zero code, whatever the signal and the other threads do.
C11_WatcherErrorExits ==
    (\E w \in Watchers : wPc[w] = "failed") ~> (exitCode # Running /\ exitCode # 0)

\* C12: the process never exits with code 0 after the Processor returned an error.
C12_NoZeroExitAfterProcError ==
    procPc = "failed" => exitCode # 0

\* C13: the step in which a notifier delivery error ends a watcher moves that
\* watcher alone: the other watchers, the work channel, the stop channel and
\* the Processor are as they were.
C13_OthersUnaffected ==
    [][(lostAt = 0 /\ lostAt' # 0) =>
         /\ Cardinality({v \in Watchers : wPc'[v] # wPc[v]}) = 1
         /\ work' = work
         /\ sigchan' = sigchan
         /\ procPc' = procPc
         /\ submitted' = submitted]_vars

\* after the delivery error another watcher enqueued a record and the
\* Processor submitted it; both are still at work
C13_Witness ==
    /\ lostAt > 0
    /\ \E v \in Watchers : wPc[v] = "watching"
    /\ procPc = "select"
    /\ \E i \in 1..Len(submitted) : submitted[i].id >= lostAt

\* C14: an event whose kind is not the adapter's qualifying kind is not
\* verified, check_and_queue returns Ok without a failure, and nothing is sent
\* on the work channel.
C14_OtherKindsIgnored ==
    (fn.op = "check_and_queue" /\ fn.kind # (IF fn.sched = "slurm" THEN "CreateFolder" ELSE "CreateFile"))
        => (~fn.verified /\ fn.res = "Ignored")

\* a created file handed to the hash-spooled adapter, and a created directory
\* handed to the alternate one
C14_Witness ==
    /\ fn.op = "check_and_queue"
    /\ \/ fn.sched = "slurm" /\ fn.kind = "CreateFile" /\ starts_with(fn.name, JobPrefix)
       \/ fn.sched = "torque" /\ fn.kind = "CreateFolder"
    /\ fn.res = "Ignored"

\* C15: for the hash-spooled adapter the creation of a directory whose name
\* does not start with job. yields no job path and no record on the work channel.
C15_NonJobDirNotQueued ==
    (fn.op = "check_and_queue" /\ fn.sched = "slurm" /\ fn.kind = "CreateFolder"
        /\ fn.isDir /\ ~starts_with(fn.name, JobPrefix))
        => (~fn.jobpath /\ fn.res # "Queued")

\* the directory fubar has been created
C15_Witness ==
    /\ fn.op = "check_and_queue"
    /\ fn.sched = "slurm"
    /\ fn.kind = "CreateFolder"
    /\ fn.isDir
    /\ fn.name = <<"f", "u", "b", "a", "r">>
    /\ fn.res # "Queued"

\* C16: records of one root are dequeued and submitted in the order in which
\* the watcher enqueued them.
C16_FifoPerRoot ==
    /\ \A i, j \in 1..Len(submitted) :
         (i < j /\ submitted[i].root = submitted[j].root) => submitted[i].id < submitted[j].id
    /\ \A i, j \in 1..Len(work) :
         (i < j /\ work[i].root = work[j].root) => work[i].id < work[j].id
    /\ \A i \in 1..Len(submitted), j \in 1..Len(work) :
         submitted[i].root = work[j].root => submitted[i].id < work[j].id

\* two records of one root have been submitted
C16_Witness ==
    \E i, j \in 1..Len(submitted) : i < j /\ submitted[i].root = submitted[j].root

\* C17: read_file returns the timeout error only if none of its existence
\* checks found the file.
C17_TimeoutOnlyIfNeverSeen ==
    (fn.op = "read_file" /\ fn.pc = "done" /\ fn.res = "Timeout") => ~fn.seen

\* C18: read_file never waits past the moment the parent path is gone: at the
\* check after that wait it has returned the not-found error, not a timeout.
C18_DirGoneReturnsAtOnce ==
    (fn.op = "read_file" /\ fn.t >= fn.dirGoneAt)
        => (fn.pc = "done" /\ fn.res = "DirGone" /\ fn.t = fn.dirGoneAt)

\* the parent path went while iterations were left
C18_Witness ==
    /\ fn.op = "read_file"
    /\ fn.res = "DirGone"
    /\ fn.iters > 1
    /\ fn.t > 1

\* C19: read_file makes at most N waits (N the bound given, or 100), every
\* wait uses up one iteration, and until it has returned with bytes or an
\* error it can take its next step.
C19_ReadFileTerminates ==
    fn.op = "read_file" =>
        /\ fn.t <= fn.n
        /\ fn.pc = "loop" => (fn.t + fn.iters = fn.n /\ ENABLED RfStep)
        /\ fn.pc = "done" => fn.res \in {"Ok", "Timeout", "DirGone", "ReadErr"}

\* the call returned after all of the default hundred waits
C19_Witness ==
    /\ fn.op = "read_file"
    /\ fn.pc = "done"
    /\ fn.n = DefaultIters
    /\ fn.t = DefaultIters

\* C20: after a successful read_job_info the script is there and not empty,
\* and so is the environment (for the alternate shape: the set of job-blob
\* files is not empty).
C20_PopulatedNonEmpty ==
    (fn.op = "read_job_info" /\ fn.out.res = "Ok") =>
        /\ fn.out.script_ # None
        /\ unwrap(fn.out.script_) # <<>>
        /\ IF fn.sched = "slurm"
           THEN fn.out.env_ # None /\ unwrap(fn.out.env_) # <<>>
           ELSE \E e \in fn.out.env_ : e.ext = "JB"

\* C21: with no filter, extra_info on the serialization of a mapping (keys not
\* empty, without = and NUL) returns that mapping, whatever the values.
C21_EnvRoundTrip ==
    (fn.op = "extra_info" /\ fn.src = "map" /\ fn.filter = None) => fn.out = fn.m

\* C22: with a filter regex, no key of the mapping extra_info returns matches it.
C22_FilteredKeysAbsent ==
    (fn.op = "extra_info" /\ fn.filter # None)
        => \A k \in DOMAIN fn.out : ~is_match(unwrap(fn.filter), k)

\* the files written for job 1 in the directory of the period
WrittenScript ==
    fn.fs[[dir |-> determine_target_path(fn.period, Today),
           name |-> JobPrefix \o <<"1", "_", "script">>]]

WrittenEnvironment ==
    fn.fs[[dir |-> determine_target_path(fn.period, Today),
           name |-> JobPrefix \o <<"1", "_", "environment">>]]

\* C23 as stated: the script and environment files written are byte for byte
\* the spool's script and environment files.
C23_ByteIdentical ==
    (fn.op = "file_archive" /\ fn.res = "Ok")
        => (WrittenScript = fn.script /\ WrittenEnvironment = fn.env)

\* C23 amended: the environment file written is byte for byte the spool's; the
\* script file written is the spool's script without its last byte when that
\* byte is NUL, and byte for byte the spool's script otherwise.
C23_ByteIdenticalButScriptNul ==
    (fn.op = "file_archive" /\ fn.res = "Ok") =>
        /\ WrittenEnvironment = fn.env
        /\ WrittenScript =
             IF Len(fn.script) > 0 /\ fn.script[Len(fn.script)] = 0
             THEN SubSeq(fn.script, 1, Len(fn.script) - 1)
             ELSE fn.script

\* a script and an environment that both end in NUL have been archived
C23_Witness ==
    /\ fn.op = "file_archive"
    /\ fn.res = "Ok"
    /\ fn.script = <<65, 0>>
    /\ fn.env = <<65, 0>>

\* C24: after the same record has been submitted twice in one period the
\* archive holds the files, with the bytes, it held after the first submission.
C24_WriteIdempotent ==
    (fn.op = "file_archive" /\ fn.count = 2) => fn.fs = fn.once

\* submitted twice into a dated directory that held an older file of that name
C24_Witness ==
    /\ fn.op = "file_archive"
    /\ fn.count = 2
    /\ fn.stale
    /\ fn.period = "Daily"
    /\ fn.script = <<65, 65>>

\* C25: the message-bus sink returns Ok when the record serializes, whether or
\* not the producer's send succeeds, and InvalidData exactly when it does not
\* serialize.
C25_KafkaFireAndForget ==
    fn.op = "kafka_archive" =>
        /\ fn.serialOk => fn.res = "Ok"
        /\ fn.res = "InvalidData" <=> ~fn.serialOk

\* the record serialized and the producer's send failed
C25_Witness ==
    /\ fn.op = "kafka_archive"
    /\ fn.serialOk
    /\ ~fn.sendOk
    /\ fn.res = "Ok"

\* C26: every record an adapter creates has a job id that is not empty.
C26_JobIdNonEmpty ==
    (fn.op = "check_and_queue" /\ fn.res = "Queued") => fn.jobid # <<>>

\* C27: a record is dequeued, read and submitted at most once: no id is
\* submitted twice, every submitted id was read with success, a record that
\* has been read is no longer in the channel, and the outcomes of the reads are
\* one per record.
C27_AtMostOnce ==
    /\ \A i, j \in 1..Len(submitted) : submitted[i].id = submitted[j].id => i = j
    /\ \A i \in 1..Len(submitted) : submitted[i].id \in readOk
    /\ \A i \in 1..Len(work) : work[i].id \notin (readOk \cup readErr)
    /\ \A i, j \in 1..Len(work) : work[i].id = work[j].id => i = j
    /\ readOk \cap readErr = {}

\* one record was read and submitted, the read of the next one failed, and
\* the channel is empty
C27_Witness ==
    /\ Len(submitted) = 1
    /\ readOk = {submitted[1].id}
    /\ readErr # {}
    /\ work = <<>>

\* C29: for the alternate adapter a created file whose extension is not SC, or
\* that has none, is ignored: no job path, no record, no error and no panic.
C29_TorqueOtherFilesIgnored ==
    (fn.op = "check_and_queue" /\ fn.sched = "torque" /\ fn.kind = "CreateFile"
        /\ ~fn.isDir /\ extension(fn.name) # Some(ScriptExt))
        => (~fn.jobpath /\ fn.res = "Ignored")

\* C30: a record the search-index sink fails to index makes the submission
\* return an error, not panic; a failed existence check at construction ends
\* the process.
C30_ElasticFailures ==
    /\ (fn.op = "elastic_archive" /\ ~fn.indexOk) => fn.res \notin {"Ok", "Panic"}
    /\ (fn.op = "elastic_new" /\ ~fn.checkOk) => fn.res = "Exit1"

C31_NoRecordKeepsWatching ==
    (fn.op = "check_and_queue" /\ fn.sched = "slurm" /\ fn.verified /\ ~fn.jobpath)
        => (fn.res = "Ignored" /\ fn.monitor = "watching")

\* C32: once the relay has left its waiting loop it sends exactly twenty stop
\* values and returns, and with a channel of capacity twenty that nothing
\* receives from none of these sends blocks: whether or not the flag is set,
\* a relay that is sending can make its next send.
C32_TwentySendsNoneBlocks ==
    fn.op = "relay" =>
        /\ fn.sent <= StopValues
        /\ fn.chan = fn.sent
        /\ fn.chan <= StopCapacity
        /\ fn.pc = "done" <=> fn.sent = StopValues
        /\ fn.pc = "send" => ENABLED RelaySendOne

\* the flag is set and the relay has returned with the channel full
C32_Witness ==
    /\ fn.op = "relay"
    /\ fn.flag
    /\ fn.pc = "done"
    /\ fn.sent = StopValues
    /\ fn.chan = StopCapacity

\* the stop values taken out of the stop channel so far
StopsConsumed == relaySent - sigchan

\* C33: every watcher and the Processor takes at most one stop value (the
\* values taken are one per watcher that stopped, plus one when the Processor
\* saw the stop); the ten watchers and the Processor are fewer than the twenty
\* values; and after the broadcast a task still waiting finds a value left.
C33_OneStopValueEach ==
    /\ StopsConsumed =
          Cardinality({w \in Watchers : wPc[w] = "stopped"}) + (IF procStopSeen THEN 1 ELSE 0)
    /\ NumWatchers <= MaxWatchLocations
    /\ MaxWatchLocations + 1 <= StopValues
    /\ relayPc = "done" =>
          /\ \A w \in Watchers : wPc[w] = "watching" => sigchan > 0
          /\ procPc = "select" => sigchan > 0

\* every watcher and the Processor have taken their stop value
C33_Witness ==
    /\ relayPc = "done"
    /\ \A w \in Watchers : wPc[w] = "stopped"
    /\ procStopSeen
    /\ sigchan = StopValues - NumWatchers - 1

\* the records enqueued so far that have not been handed to the sink
NeverSubmitted == (nextId - 1) - Len(submitted)

\* C34 as stated: under cleanup=false the number reported as skipped is the
\* number of records that were enqueued and are never submitted.
C34_SkippedIsNeverSubmitted ==
    (~cleanup /\ procStopSeen) => depthAtStop = NeverSubmitted

\* C34 amended: under cleanup=false the number reported as skipped is the
\* depth of the work channel at the moment the stop value is observed; nothing
\* is submitted afterwards, and the records never submitted are these and the
\* ones enqueued later, which are not counted.
C34_SkippedIsDepthAtStop ==
    /\ []((~cleanup /\ procStopSeen) =>
            /\ Len(submitted) = subAtStop
            /\ NeverSubmitted = Len(work)
            /\ depthAtStop <= NeverSubmitted)
    /\ [][(~cleanup /\ procStopSeen') =>
            IF procStopSeen
            THEN depthAtStop' = depthAtStop
            ELSE depthAtStop' = Len(work) /\ work' = work]_vars

\* the stop found one record in the channel and two are there now
C34_Witness ==
    /\ ~cleanup
    /\ procStopSeen
    /\ depthAtStop = 1
    /\ Len(work) = 2
    /\ \E w \in Watchers : wPc[w] = "watching"

\* do these bytes end in a NUL byte
EndsInNul(b) == Len(b) > 0 /\ b[Len(b)] = 0

\* C35: after a successful read_job_info for the hash-spooled shape the stored
\* script does not end in a NUL byte, whatever the script file holds.
C35_ScriptNeverEndsInNul ==
    (fn.op = "read_job_info" /\ fn.sched = "slurm" /\ fn.out.res = "Ok")
        => ~EndsInNul(unwrap(fn.out.script_))

\* C36 as stated: when the environment file ends in a NUL byte the stored
\* environment is the file without that byte.
C36_EnvNulDropped ==
    (fn.op = "read_job_info" /\ fn.sched = "slurm" /\ fn.out.res = "Ok"
        /\ EndsInNul(unwrap(fn.env)))
        => unwrap(fn.out.env_) = SubSeq(unwrap(fn.env), 1, Len(unwrap(fn.env)) - 1)

\* C36 amended: the stored environment is the environment file as it is, a
\* trailing NUL byte included; it is the script file's trailing NUL byte that
\* read_job_info drops from what it stores.
C36_ScriptNulDroppedEnvKept ==
    (fn.op = "read_job_info" /\ fn.sched = "slurm" /\ fn.out.res = "Ok") =>
        /\ fn.out.env_ = fn.env
        /\ unwrap(fn.out.script_) =
             IF EndsInNul(unwrap(fn.script))
             THEN SubSeq(unwrap(fn.script), 1, Len(unwrap(fn.script)) - 1)
             ELSE unwrap(fn.script)

\* the script file and the environment file both end in a NUL byte
C36_Witness ==
    /\ fn.op = "read_job_info"
    /\ fn.sched = "slurm"
    /\ fn.out.res = "Ok"
    /\ fn.script = Some(<<65, 0>>)
    /\ fn.env = Some(<<65, 0>>)

\* C37: extra_info returns a mapping for every environment read_job_info can
\* store, an empty file and files shorter than the header included.
C37_ExtraInfoTotal ==
    fn.op = "extra_info" => fn.res = "Ok"

RECURSIVE to_num(_)
\* the number a string of decimal digits stands for
to_num(s) ==
    IF s = <<>> THEN 0
    ELSE 10 * to_num(SubSeq(s, 1, Len(s) - 1))
         + (CHOOSE v \in 0..9 : DecimalDigits[v + 1] = s[Len(s)])

\* C38: determine_target_path returns the archive path itself for period None
\* and the subdirectory YYYY, YYYYMM or YYYYMMDD of the current date for
\* Yearly, Monthly and Daily; when it has returned for one of these three, a
\* directory exists at the returned path.
C38_TargetPathPerPeriod ==
    (fn.op = "determine_target_path" /\ fn.res = "Returned") =>
        /\ fn.period = "None" => fn.path = <<>>
        /\ fn.period = "Yearly" =>
              Len(fn.path) = 4 /\ to_num(fn.path) = fn.now.y
        /\ fn.period = "Monthly" =>
              /\ Len(fn.path) = 6
              /\ to_num(SubSeq(fn.path, 1, 4)) = fn.now.y
              /\ to_num(SubSeq(fn.path, 5, 6)) = fn.now.m
        /\ fn.period = "Daily" =>
              /\ Len(fn.path) = 8
              /\ to_num(SubSeq(fn.path, 1, 4)) = fn.now.y
              /\ to_num(SubSeq(fn.path, 5, 6)) = fn.now.m
              /\ to_num(SubSeq(fn.path, 7, 8)) = fn.now.d
        /\ fn.period # "None" => fn.node = "dir"

\* C39: when the k-th file of files() cannot be created or written, the
\* filesystem sink returns that error, the files before the k-th are in the
\* archive with their bytes, and the files after it are not written: what the
\* archive held under their names, or nothing, is still there.
C39_StopsAtFirstFailure ==
    fn.op = "file_archive_fails" =>
        /\ fn.res = "IoError"
        /\ \A i \in 1..Len(fn.files) :
              LET q == [dir |-> fn.dir, name |-> fn.files[i].name]
              IN  /\ i < fn.k => (q \in DOMAIN fn.fs /\ fn.fs[q] = fn.files[i].bytes)
                  /\ i > fn.k => IF q \in DOMAIN fn.pre
                                 THEN q \in DOMAIN fn.fs /\ fn.fs[q] = fn.pre[q]
                                 ELSE q \notin DOMAIN fn.fs

\* over older files, the first file has been written and the write of the
\* second has failed
C39_Witness ==
    /\ fn.op = "file_archive_fails"
    /\ fn.res = "IoError"
    /\ fn.k = 2
    /\ fn.how = "write"
    /\ fn.pre # EmptyFs
    /\ fn.fs[[dir |-> fn.dir, name |-> fn.files[1].name]] = <<65, 65>>

\* C40: in the legacy archive() the subtraction 2000 ms - elapsed() never
\* underflows, whatever time passes between the check of elapsed() and the
\* second read: the function goes on to read the files.
C40_LegacyDebounceNoUnderflow ==
    fn.op = "legacy_archive" => (fn.res # "Panic" /\ fn.slept >= 0)

====
